---- MODULE Spec2Model ----
(***************************************************************************)
(* Model of cli_assist's `cmake` subcommand (src/src/cmake.rs, lib.rs):    *)
(* the flag cascade and phase sequence of process(), the lint phase        *)
(* clang_tidy() with find_cpp_files() and search_tidy(), and run().        *)
(*                                                                         *)
(* Strings that the code inspects (paths, TIDY_EXCLUDE, tool output) are   *)
(* sequences of one-character strings.  Option<T> is <<>> (None) or <<x>>  *)
(* (Some(x)).                                                              *)
(***************************************************************************)
EXTENDS Integers, Sequences, FiniteSets, TLC

VARIABLES
    cmds,        \* the parsed CmakeVars
    environ,     \* the environment at start: BUILD_DIR / REPO_ROOT set, and
                 \* whether the build directory existed
    pc,          \* position inside run()/process()/clang_tidy()
    status,      \* `let mut status` of process()
    exists,      \* Path::new(&build_path).exists()
    trace,       \* phases executed so far, with their outcome
    calls,       \* external tools launched so far, with their arguments
    printed,     \* booleans printed by the final println!
    exitCode,    \* <<>> while running, <<c>> once the process has ended
    cpp_files,   \* clang_tidy: result of find_cpp_files
    tidy_env,    \* clang_tidy: what TIDY_EXCLUDE held and what the glob found
    tidyDir,     \* BUILD_DIR/ClangTidy exists
    output,      \* clang_tidy: <<[stdout, success]>> once the tool has exited
    fullLog,     \* writes to ClangTidy/clang-tidy.log
    errLog,      \* writes to ClangTidy/clang-tidy-err.log
    fn_in,       \* argument of the pure function under check
    fn_out       \* its result

vars == <<cmds, environ, pc, status, exists, trace, calls, printed, exitCode,
          cpp_files, tidy_env, tidyDir, output, fullLog, errLog, fn_in, fn_out>>

lintVars == <<cpp_files, tidy_env, tidyDir, output, fullLog, errLog>>
fnVars == <<fn_in, fn_out>>

----------------------------------------------------------------------------
(* Bounds *)

\* longest TIDY_EXCLUDE value drawn in the lint phase
MaxExcludeLen == 1

\* most lines of tool output drawn for search_tidy
MaxLines == 2

\* longest exclusion string drawn for find_cpp_files on its own
MaxPatternLen == 3

----------------------------------------------------------------------------
(* Option *)

None == <<>>
Some(x) == <<x>>

----------------------------------------------------------------------------
(* Strings *)

RECURSIVE StringsUpTo(_, _)
StringsUpTo(chars, n) ==
    IF n = 0 THEN {<<>>}
    ELSE LET shorter == StringsUpTo(chars, n - 1)
         IN  shorter \cup {Append(s, c) : s \in shorter, c \in chars}

\* index of the first occurrence of character c in s, 0 when absent
RECURSIVE IndexOf(_, _, _)
IndexOf(s, c, from) ==
    IF from > Len(s) THEN 0
    ELSE IF s[from] = c THEN from
    ELSE IndexOf(s, c, from + 1)

\* a split that drops empty pieces, as str::split_whitespace would
RECURSIVE split_skip_empty(_, _)
split_skip_empty(s, sep) ==
    LET i == IndexOf(s, sep, 1)
    IN  IF s = <<>> THEN <<>>
        ELSE IF i = 0 THEN <<s>>
        ELSE (IF i = 1 THEN <<>> ELSE <<SubSeq(s, 1, i - 1)>>)
             \o split_skip_empty(SubSeq(s, i + 1, Len(s)), sep)

\* str::split(" "): the pieces between separators; "" yields one empty piece
RECURSIVE split(_, _)
split(s, sep) ==
    LET i == IndexOf(s, sep, 1)
    IN  IF i = 0 THEN <<s>>
        ELSE <<SubSeq(s, 1, i - 1)>> \o split(SubSeq(s, i + 1, Len(s)), sep)

\* Regex::is_match for a pattern of literal characters: an unanchored search
RECURSIVE is_match_from(_, _, _)
is_match_from(pat, hay, i) ==
    IF i + Len(pat) - 1 > Len(hay) THEN FALSE
    ELSE IF SubSeq(hay, i, i + Len(pat) - 1) = pat THEN TRUE
    ELSE is_match_from(pat, hay, i + 1)

\* a match only at the start of the path
is_match_anchored(pat, hay) ==
    Len(pat) <= Len(hay) /\ SubSeq(hay, 1, Len(pat)) = pat

is_match(pat, hay) == is_match_from(pat, hay, 1)

----------------------------------------------------------------------------
(* find_cpp_files *)

\* the inner `for dir in exlude_dirs.clone()` loop
RECURSIVE regex_match(_, _, _)
regex_match(dirs, file, k) ==
    IF k > Len(dirs) THEN FALSE
    ELSE IF is_match(dirs[k], file) THEN TRUE
    ELSE regex_match(dirs, file, k + 1)

RECURSIVE find_loop(_, _, _)
find_loop(dirs, glob, n) ==
    IF n > Len(glob) THEN <<>>
    ELSE (IF regex_match(dirs, glob[n], 1) THEN <<glob[n]>> ELSE <<>>)
         \o find_loop(dirs, glob, n + 1)

find_cpp_files(exlude_dirs, all_cpp_glob) ==
    find_loop(split(exlude_dirs, " "), all_cpp_glob, 1)

----------------------------------------------------------------------------
(* search_tidy *)

\* a byte that is not valid UTF-8
BAD == "\\xFF"

ErrTag == <<"e", "r", "r", "o", "r", ":", " ">>
WarnTag == <<"w", "a", "r", "n", "i", "n", "g", ":", " ">>

\* the pattern without the blank after each colon
search_regex_nospace ==
    <<SubSeq(ErrTag, 1, Len(ErrTag) - 1), SubSeq(WarnTag, 1, Len(WarnTag) - 1)>>

\* Regex::new(r"error: |warning: ")
search_regex == <<ErrTag, WarnTag>>

search_is_match(line) ==
    \E k \in 1..Len(search_regex) : is_match(search_regex[k], line)

\* BufRead::lines: split at "\n", drop the "\n" and a "\r" right before it;
\* no final empty line after a trailing "\n"
RECURSIVE lines(_)
lines(text) ==
    IF text = <<>> THEN <<>>
    ELSE LET i == IndexOf(text, "\n", 1)
         IN  IF i = 0 THEN <<text>>
             ELSE LET raw == SubSeq(text, 1, i - 1)
                      line == IF raw # <<>> /\ raw[Len(raw)] = "\r"
                              THEN SubSeq(raw, 1, Len(raw) - 1) ELSE raw
                  IN  <<line>> \o lines(SubSeq(text, i + 1, Len(text)))

\* the loop of search_tidy over lines n.. ; line.unwrap() panics on a line
\* that is not UTF-8
RECURSIVE search_loop(_, _, _)
search_loop(ls, n, acc) ==
    IF n > Len(ls) THEN [ok |-> TRUE, val |-> acc]
    ELSE IF IndexOf(ls[n], BAD, 1) # 0 THEN [ok |-> FALSE, val |-> <<>>]
    ELSE IF search_is_match(ls[n])
         THEN search_loop(ls, n + 1, (acc \o ls[n]) \o <<"\n">>)
    ELSE search_loop(ls, n + 1, acc)

search_tidy(text) == search_loop(lines(text), 1, <<>>)

----------------------------------------------------------------------------
(* process(): the flag cascade, lines 61-74 *)

target(c) == c.target # None
cmake_target(c) == IF c.target # None THEN c.target[1] ELSE ""
release(c) == c.release
install(c) == c.install
coverage(c) == c.coverage
tidy(c) == c.tidy
test(c) == c.test \/ coverage(c)
\* the cascade without lint's dependency on build
build_without_tidy(c) == c.build \/ test(c) \/ install(c)

build(c) == c.build \/ test(c) \/ install(c) \/ tidy(c)
\* the cascade without build's dependency on configure
configure_without_build(c) == c.configure \/ release(c) \/ target(c) \/ tidy(c)

\* the cascade without release's dependency on configure
configure_without_release(c) == c.configure \/ build(c) \/ target(c) \/ tidy(c)

configure(c) == c.configure \/ build(c) \/ release(c) \/ target(c) \/ tidy(c)

(* process(): the condition of each `if` *)

\* destroy without the existence check
if_destroy_always(c, e) == c.destroy

if_destroy(c, e) == c.destroy /\ e
\* clean without the existence check
if_clean_always(c, e) == target(c) /\ cmake_target(c) = "clean"

if_clean(c, e) == target(c) /\ cmake_target(c) = "clean" /\ e
if_configure(c, st) == st /\ configure(c)
if_build(c, st) == st /\ build(c)
\* the named-target build without the exception for "clean"
if_target_any(c, st) == st /\ target(c)

if_target(c, st) == st /\ target(c) /\ cmake_target(c) # "clean"
\* test not gated by the accumulator
if_test_unconditional(c, st) == test(c)

if_test(c, st) == st /\ test(c)
if_coverage(c, st) == st /\ coverage(c)
if_tidy(c, st) == st /\ tidy(c)
if_install(c, st) == st /\ install(c)

----------------------------------------------------------------------------
(* Inputs *)

TargetNames == {"clean", "app"}

CmakeVars ==
    [destroy : BOOLEAN, configure : BOOLEAN, build : BOOLEAN, test : BOOLEAN,
     coverage : BOOLEAN, install : BOOLEAN,
     target : {None} \cup {Some(t) : t \in TargetNames},
     tidy : BOOLEAN, release : BOOLEAN]

Environ == [BUILD_DIR : BOOLEAN, REPO_ROOT : BOOLEAN, dir_at_start : BOOLEAN]

\* how a Command ends: exit 0, exit non-zero, or it cannot be launched
ToolOutcomes == {"ok", "fail", "nolaunch"}

\* values of TIDY_EXCLUDE: unset, or a string of pattern characters and spaces
TidyExcludeValues == {None} \cup {Some(s) : s \in StringsUpTo({"a", " "}, MaxExcludeLen)}

\* what the glob REPO_ROOT/**/*.cpp yields, in the glob's (sorted) order
Globs == {<<>>, << <<"a">> >>, << <<"a">>, <<"b">> >>}

\* what clang-tidy prints in a run of process()
TidyOutputs ==
    { <<>>,
      (<<"x", ":", " ">> \o ErrTag) \o <<"y", "\n">>,
      (<<"n", "\n">> \o WarnTag) \o <<"z">>,
      <<"n", "\n", BAD, "\n">> }

----------------------------------------------------------------------------
(* State *)

NoCall == [tool |-> "", target |-> "", defs |-> {}, files |-> <<>>]

Init ==
    /\ cmds \in CmakeVars
    /\ environ \in Environ
    /\ pc = "process"
    /\ status = TRUE
    /\ exists = environ.dir_at_start
    /\ trace = <<>>
    /\ calls = <<>>
    /\ printed = <<>>
    /\ exitCode = None
    /\ cpp_files = <<>>
    /\ tidy_env = None
    /\ tidyDir = FALSE
    /\ output = None
    /\ fullLog = <<>>
    /\ errLog = <<>>
    /\ fn_in = <<>>
    /\ fn_out = None

\* a panic (expect/unwrap) unwinds out of process() and ends the process
PanicExit == 101

panic ==
    /\ pc' = "aborted"
    /\ exitCode' = Some(PanicExit)

Executed(phase, res) == trace' = Append(trace, [phase |-> phase, res |-> res])


----------------------------------------------------------------------------
(* The tool-running functions *)

\* a launch failure reported as an ordinary failed phase
target_cmake_launch_as_failure(phase, t, next) ==
    \E out \in ToolOutcomes :
        /\ calls' = IF out = "nolaunch" THEN calls
                     ELSE Append(calls, [NoCall EXCEPT !.tool = "cmake", !.target = t])
        /\ status' = (out = "ok")
        /\ Executed(phase, IF out = "nolaunch" THEN "abort" ELSE out)
        /\ pc' = next
        /\ UNCHANGED exitCode

\* Command::new("cmake") --build <dir> --parallel --target <t>, .status()
\* .expect(..).success(); `next` is where process() continues
target_cmake(phase, t, next) ==
    \E out \in ToolOutcomes :
        IF out = "nolaunch"
        THEN /\ panic
             /\ Executed(phase, "abort")
             /\ UNCHANGED <<status, calls>>
        ELSE /\ calls' = Append(calls, [NoCall EXCEPT !.tool = "cmake", !.target = t])
             /\ status' = (out = "ok")
             /\ Executed(phase, out)
             /\ pc' = next
             /\ UNCHANGED exitCode

build_cmake(next) == target_cmake("build", "all", next)
coverage_cmake(next) == target_cmake("coverage", "ExperimentalCoverage", next)
install_cmake(next) == target_cmake("install", "install", next)
clean_cmake(next) == target_cmake("clean", "clean", next)

\* coverage passing its own define only
configure_defs_coverage_alone(c, rel) ==
    {IF rel THEN "-DCMAKE_BUILD_TYPE=Release" ELSE "-DCMAKE_BUILD_TYPE=Debug"}
    \cup (IF c.coverage THEN {"-DENABLE_COVERAGE=ON"} ELSE {})
    \cup (IF c.test THEN {"-Dtest=ON"} ELSE {})

\* the -D arguments configure_cmake passes
configure_defs(c, rel) ==
    {IF rel THEN "-DCMAKE_BUILD_TYPE=Release" ELSE "-DCMAKE_BUILD_TYPE=Debug"}
    \cup (IF c.coverage THEN {"-Dtest=ON", "-DENABLE_COVERAGE=ON"}
          ELSE IF c.test THEN {"-Dtest=ON"} ELSE {})

\* cmake -S . -B <dir> -G Ninja ...; a launched cmake creates the directory
\* when it succeeds and may have created it when it fails
configure_cmake(c, rel, next) ==
    \E out \in ToolOutcomes :
        IF out = "nolaunch"
        THEN /\ panic
             /\ Executed("configure", "abort")
             /\ UNCHANGED <<status, calls, exists>>
        ELSE /\ calls' = Append(calls, [NoCall EXCEPT !.tool = "cmake",
                                            !.defs = configure_defs(c, rel)])
             /\ status' = (out = "ok")
             /\ exists' \in (IF out = "ok" THEN {TRUE} ELSE {exists, TRUE})
             /\ Executed("configure", out)
             /\ pc' = next
             /\ UNCHANGED exitCode

\* ctest --test-dir <dir> --output-junit report.xml --output-on-failure
test_cmake(next) ==
    \E out \in ToolOutcomes :
        IF out = "nolaunch"
        THEN /\ panic
             /\ Executed("test", "abort")
             /\ UNCHANGED <<status, calls>>
        ELSE /\ calls' = Append(calls, [NoCall EXCEPT !.tool = "ctest"])
             /\ status' = (out = "ok")
             /\ Executed("test", out)
             /\ pc' = next
             /\ UNCHANGED exitCode

\* remove_dir_all: Ok removes the directory, Err leaves it in place
destroy_cmake(next) ==
    \E removed \in BOOLEAN :
        /\ status' = removed
        /\ exists' = ~removed
        /\ Executed("destroy", IF removed THEN "ok" ELSE "fail")
        /\ pc' = next
        /\ UNCHANGED <<exitCode, calls>>

skip(next) ==
    /\ pc' = next
    /\ UNCHANGED <<status, exists, trace, calls, exitCode>>

----------------------------------------------------------------------------
(* process() *)

\* BUILD_DIR defaulting to the empty string instead of the expect
process_build_path_default ==
    /\ pc = "process"
    /\ pc' = "destroy"
    /\ UNCHANGED <<cmds, environ, status, exists, trace, calls, printed, exitCode>>
    /\ UNCHANGED lintVars /\ UNCHANGED fnVars

\* REPO_ROOT looked up next to BUILD_DIR, for every run
process_build_path_repo_root ==
    /\ pc = "process"
    /\ IF environ.BUILD_DIR /\ environ.REPO_ROOT
       THEN pc' = "destroy" /\ UNCHANGED exitCode
       ELSE panic
    /\ UNCHANGED <<cmds, environ, status, exists, trace, calls, printed>>
    /\ UNCHANGED lintVars /\ UNCHANGED fnVars

\* lines 53-55: env::var("BUILD_DIR").expect(..)
process_build_path ==
    /\ pc = "process"
    /\ IF environ.BUILD_DIR
       THEN pc' = "destroy" /\ UNCHANGED exitCode
       ELSE panic
    /\ UNCHANGED <<cmds, environ, status, exists, trace, calls, printed>>
    /\ UNCHANGED lintVars /\ UNCHANGED fnVars

process_destroy ==
    /\ pc = "destroy"
    /\ IF if_destroy(cmds, exists) THEN destroy_cmake("clean") ELSE skip("clean")
    /\ UNCHANGED <<cmds, environ, printed>>
    /\ UNCHANGED lintVars /\ UNCHANGED fnVars

process_clean ==
    /\ pc = "clean"
    /\ IF if_clean(cmds, exists)
       THEN clean_cmake("configure") /\ UNCHANGED exists
       ELSE skip("configure")
    /\ UNCHANGED <<cmds, environ, printed>>
    /\ UNCHANGED lintVars /\ UNCHANGED fnVars

process_configure ==
    /\ pc = "configure"
    /\ IF if_configure(cmds, status)
       THEN configure_cmake(cmds, release(cmds), "build")
       ELSE skip("build")
    /\ UNCHANGED <<cmds, environ, printed>>
    /\ UNCHANGED lintVars /\ UNCHANGED fnVars

process_build ==
    /\ pc = "build"
    /\ IF if_build(cmds, status)
       THEN build_cmake("target") /\ UNCHANGED exists
       ELSE skip("target")
    /\ UNCHANGED <<cmds, environ, printed>>
    /\ UNCHANGED lintVars /\ UNCHANGED fnVars

process_target ==
    /\ pc = "target"
    /\ IF if_target(cmds, status)
       THEN target_cmake("target", cmake_target(cmds), "test") /\ UNCHANGED exists
       ELSE skip("test")
    /\ UNCHANGED <<cmds, environ, printed>>
    /\ UNCHANGED lintVars /\ UNCHANGED fnVars

process_test ==
    /\ pc = "test"
    /\ IF if_test(cmds, status)
       THEN test_cmake("coverage") /\ UNCHANGED exists
       ELSE skip("coverage")
    /\ UNCHANGED <<cmds, environ, printed>>
    /\ UNCHANGED lintVars /\ UNCHANGED fnVars

process_coverage ==
    /\ pc = "coverage"
    /\ IF if_coverage(cmds, status)
       THEN coverage_cmake("tidy") /\ UNCHANGED exists
       ELSE skip("tidy")
    /\ UNCHANGED <<cmds, environ, printed>>
    /\ UNCHANGED lintVars /\ UNCHANGED fnVars

\* lines 102-104: the call of clang_tidy, which runs in the steps below
process_tidy ==
    /\ pc = "tidy"
    /\ IF if_tidy(cmds, status)
       THEN /\ pc' = "tidy_env"
            /\ Executed("lint", "running")
            /\ UNCHANGED <<status, exists, calls, exitCode>>
       ELSE skip("install")
    /\ UNCHANGED <<cmds, environ, printed>>
    /\ UNCHANGED lintVars /\ UNCHANGED fnVars

process_install ==
    /\ pc = "install"
    /\ IF if_install(cmds, status)
       THEN install_cmake("println") /\ UNCHANGED exists
       ELSE skip("println")
    /\ UNCHANGED <<cmds, environ, printed>>
    /\ UNCHANGED lintVars /\ UNCHANGED fnVars

\* the status line printed only for a successful run
process_println_on_success ==
    /\ pc = "println"
    /\ printed' = IF status THEN Append(printed, status) ELSE printed
    /\ pc' = "returned"
    /\ UNCHANGED <<cmds, environ, status, exists, trace, calls, exitCode>>
    /\ UNCHANGED lintVars /\ UNCHANGED fnVars

\* line 110: println!("CMake finished with: {status}"), then process returns ()
process_println ==
    /\ pc = "println"
    /\ printed' = Append(printed, status)
    /\ pc' = "returned"
    /\ UNCHANGED <<cmds, environ, status, exists, trace, calls, exitCode>>
    /\ UNCHANGED lintVars /\ UNCHANGED fnVars

\* run(): cmake::process(v) returned (); nothing of `status` comes back, run
\* returns () as well and the process ends normally
ExitNormal == 0

run ==
    /\ pc = "returned"
    /\ pc' = "done"
    /\ exitCode' = Some(ExitNormal)
    /\ UNCHANGED <<cmds, environ, status, exists, trace, calls, printed>>
    /\ UNCHANGED lintVars /\ UNCHANGED fnVars

----------------------------------------------------------------------------
(* clang_tidy() *)

LintResult(res) == trace' = [trace EXCEPT ![Len(trace)].res = res]

\* clang-tidy cannot be launched: .expect("failed to execute process")
lint_panic ==
    /\ panic
    /\ LintResult("abort")

\* the other panics of clang_tidy: REPO_ROOT unset, no .clang-tidy found,
\* create_dir_all or File::create failing, output that is not UTF-8
lint_fatal ==
    /\ panic
    /\ LintResult("fatal")

\* lines 195-218: REPO_ROOT, the .clang-tidy glob, TIDY_EXCLUDE, find_cpp_files
tidy_find_from(excludes, globs) ==
    /\ pc = "tidy_env"
    /\ \/ /\ ~environ.REPO_ROOT
          /\ lint_fatal
          /\ UNCHANGED <<cpp_files, tidy_env>>
       \/ /\ environ.REPO_ROOT
          /\ \E cfg_found \in BOOLEAN :
                IF ~cfg_found
                THEN lint_fatal /\ UNCHANGED <<cpp_files, tidy_env>>
                ELSE \E var \in excludes, all_cpp_glob \in globs :
                        LET tidy_exclude_dirs == IF var = None THEN <<>> ELSE var[1]
                        IN  /\ tidy_env' = Some([TIDY_EXCLUDE |-> var, glob |-> all_cpp_glob])
                            /\ cpp_files' = find_cpp_files(tidy_exclude_dirs, all_cpp_glob)
                            /\ pc' = "tidy_mkdir"
                            /\ UNCHANGED <<trace, exitCode>>
    /\ UNCHANGED <<cmds, environ, status, exists, calls, printed>>
    /\ UNCHANGED <<tidyDir, output, fullLog, errLog>> /\ UNCHANGED fnVars

tidy_find == tidy_find_from(TidyExcludeValues, Globs)

\* lines 220-225: create_dir_all(BUILD_DIR/ClangTidy).unwrap()
tidy_create_dir ==
    /\ pc = "tidy_mkdir"
    /\ \E created \in BOOLEAN :
          IF created
          THEN /\ tidyDir' = TRUE
               /\ exists' = TRUE
               /\ pc' = "tidy_invoke"
               /\ UNCHANGED <<trace, exitCode>>
          ELSE lint_fatal /\ UNCHANGED <<tidyDir, exists>>
    /\ UNCHANGED <<cmds, environ, status, calls, printed>>
    /\ UNCHANGED <<cpp_files, tidy_env, output, fullLog, errLog>> /\ UNCHANGED fnVars

\* lines 228-236: Command::new("clang-tidy") ... .output().expect(..)
tidy_command_from(outputs) ==
    /\ pc = "tidy_invoke"
    /\ \/ lint_panic /\ UNCHANGED <<calls, output>>
       \/ \E stdout \in outputs, success \in BOOLEAN :
             /\ calls' = Append(calls, [NoCall EXCEPT !.tool = "clang-tidy",
                                                 !.files = cpp_files])
             /\ output' = Some([stdout |-> stdout, success |-> success])
             /\ pc' = "tidy_log"
             /\ UNCHANGED <<trace, exitCode>>
    /\ UNCHANGED <<cmds, environ, status, exists, printed>>
    /\ UNCHANGED <<cpp_files, tidy_env, tidyDir, fullLog, errLog>> /\ UNCHANGED fnVars

tidy_command == tidy_command_from(TidyOutputs)

\* File::create(path) fails -> panic; otherwise the text is the file's content
make_and_write_file(log, text, next) ==
    \E created \in BOOLEAN :
        IF created
        THEN /\ log' = Append(log, text)
             /\ pc' = next
             /\ UNCHANGED <<trace, exitCode>>
        ELSE lint_fatal /\ UNCHANGED log

\* lines 239-240: the full log
tidy_write_log ==
    /\ pc = "tidy_log"
    /\ make_and_write_file(fullLog, output[1].stdout, "tidy_err")
    /\ UNCHANGED <<cmds, environ, status, exists, calls, printed>>
    /\ UNCHANGED <<cpp_files, tidy_env, tidyDir, output, errLog>> /\ UNCHANGED fnVars

\* lines 243-248: search_tidy and the reduced log
tidy_write_err ==
    /\ pc = "tidy_err"
    /\ LET search_output == search_tidy(output[1].stdout)
       IN  IF search_output.ok
           THEN make_and_write_file(errLog, search_output.val, "tidy_ret")
           ELSE lint_fatal /\ UNCHANGED errLog
    /\ UNCHANGED <<cmds, environ, status, exists, calls, printed>>
    /\ UNCHANGED <<cpp_files, tidy_env, tidyDir, output, fullLog>> /\ UNCHANGED fnVars

\* the lint phase reporting success whatever clang-tidy's exit status
tidy_return_always_ok ==
    /\ pc = "tidy_ret"
    /\ status' = TRUE
    /\ LintResult("ok")
    /\ pc' = "install"
    /\ UNCHANGED <<cmds, environ, exists, calls, printed, exitCode>>
    /\ UNCHANGED lintVars /\ UNCHANGED fnVars

\* line 250 and the assignment of line 103
tidy_return ==
    /\ pc = "tidy_ret"
    /\ status' = output[1].success
    /\ LintResult(IF output[1].success THEN "ok" ELSE "fail")
    /\ pc' = "install"
    /\ UNCHANGED <<cmds, environ, exists, calls, printed, exitCode>>
    /\ UNCHANGED lintVars /\ UNCHANGED fnVars

----------------------------------------------------------------------------

Next ==
    \/ process_build_path
    \/ process_destroy
    \/ process_clean
    \/ process_configure
    \/ process_build
    \/ process_target
    \/ process_test
    \/ process_coverage
    \/ process_tidy
    \/ process_install
    \/ process_println
    \/ run
    \/ tidy_find
    \/ tidy_create_dir
    \/ tidy_command
    \/ tidy_write_log
    \/ tidy_write_err
    \/ tidy_return

Spec == Init /\ [][Next]_vars

\* The same program with fairness, for termination.  process() is sequential
\* and every call in it blocks until it returns: as long as a step is possible
\* one is taken (tools that never exit are not part of the model).  Which
\* step follows never depends on the text of TIDY_EXCLUDE or on the files
\* found, and on the tool output only through whether it is UTF-8, so the lint
\* phase draws one environment and two outputs here.
FairExcludes == {None}
FairGlobs == {<< <<"a">>, <<"b">> >>}
FairOutputs == {(<<"x", ":", " ">> \o ErrTag) \o <<"y", "\n">>, <<"n", "\n", BAD, "\n">>}

tidy_find_fair == tidy_find_from(FairExcludes, FairGlobs)
tidy_command_fair == tidy_command_from(FairOutputs)

FairNext ==
    \/ process_build_path
    \/ process_destroy
    \/ process_clean
    \/ process_configure
    \/ process_build
    \/ process_target
    \/ process_test
    \/ process_coverage
    \/ process_tidy
    \/ process_install
    \/ process_println
    \/ run
    \/ tidy_find_fair
    \/ tidy_create_dir
    \/ tidy_command_fair
    \/ tidy_write_log
    \/ tidy_write_err
    \/ tidy_return

SpecFair == Init /\ [][FairNext]_vars /\ WF_vars(FairNext)


----------------------------------------------------------------------------
(* search_tidy on its own: every text of at most MaxLines lines *)

LineBodies ==
    { <<>>,
      <<"n">>,
      (<<"x", ":", " ">> \o ErrTag) \o <<"y">>,
      WarnTag \o <<"z">>,
      <<"E", "r", "r", "o", "r", ":", " ">>,
      <<"e", "r", "r", "o", "r", ":">>,
      <<"w", "a", "r", "n", "i", "n", "g", ":", "z">>,
      <<"\r">> \o WarnTag,
      <<BAD>> }

LineEnds == {<<"\n">>, <<"\r", "\n">>}

RECURSIVE Texts(_)
Texts(n) ==
    IF n = 0 THEN {<<>>}
    ELSE LET shorter == Texts(n - 1)
             whole == {t \in shorter : t = <<>> \/ t[Len(t)] = "\n"}
         IN  shorter
             \cup {(t \o b) \o e : t \in whole, b \in LineBodies, e \in LineEnds}
             \cup {t \o b : t \in whole, b \in LineBodies}

SearchInit ==
    /\ cmds = [destroy |-> FALSE, configure |-> FALSE, build |-> FALSE,
               test |-> FALSE, coverage |-> FALSE, install |-> FALSE,
               target |-> None, tidy |-> FALSE, release |-> FALSE]
    /\ environ = [BUILD_DIR |-> TRUE, REPO_ROOT |-> TRUE, dir_at_start |-> TRUE]
    /\ pc = "search_tidy"
    /\ status = TRUE
    /\ exists = TRUE
    /\ trace = <<>>
    /\ calls = <<>>
    /\ printed = <<>>
    /\ exitCode = None
    /\ cpp_files = <<>>
    /\ tidy_env = None
    /\ tidyDir = FALSE
    /\ output = None
    /\ fullLog = <<>>
    /\ errLog = <<>>
    /\ fn_in \in Texts(MaxLines)
    /\ fn_out = None

call_search_tidy ==
    /\ pc = "search_tidy"
    /\ fn_out' = Some(search_tidy(fn_in))
    /\ pc' = "fn_done"
    /\ UNCHANGED <<cmds, environ, status, exists, trace, calls, printed, exitCode, fn_in>>
    /\ UNCHANGED lintVars

SearchNext == call_search_tidy

SpecSearch == SearchInit /\ [][SearchNext]_vars


----------------------------------------------------------------------------
(* find_cpp_files on its own: every exclusion string of at most *)
(* MaxPatternLen characters against every glob result           *)

\* the .cpp files a tree can hold, in the glob's order
AllPaths == << <<"a">>, <<"a", "b">>, <<"b">>, <<"c">> >>

\* the entries of seq at the indices in S, in order
RECURSIVE Pick(_, _, _)
Pick(seq, S, n) ==
    IF n > Len(seq) THEN <<>>
    ELSE (IF n \in S THEN <<seq[n]>> ELSE <<>>) \o Pick(seq, S, n + 1)

FindGlobs == {Pick(AllPaths, S, 1) : S \in SUBSET (1..Len(AllPaths))}

FindInit ==
    /\ cmds = [destroy |-> FALSE, configure |-> FALSE, build |-> FALSE,
               test |-> FALSE, coverage |-> FALSE, install |-> FALSE,
               target |-> None, tidy |-> FALSE, release |-> FALSE]
    /\ environ = [BUILD_DIR |-> TRUE, REPO_ROOT |-> TRUE, dir_at_start |-> TRUE]
    /\ pc = "find_cpp_files"
    /\ status = TRUE
    /\ exists = TRUE
    /\ trace = <<>>
    /\ calls = <<>>
    /\ printed = <<>>
    /\ exitCode = None
    /\ cpp_files = <<>>
    /\ tidy_env = None
    /\ tidyDir = FALSE
    /\ output = None
    /\ fullLog = <<>>
    /\ errLog = <<>>
    /\ fn_in \in [exlude_dirs : StringsUpTo({"a", "b", " "}, MaxPatternLen),
                   glob : FindGlobs]
    /\ fn_out = None

call_find_cpp_files ==
    /\ pc = "find_cpp_files"
    /\ fn_out' = Some(find_cpp_files(fn_in.exlude_dirs, fn_in.glob))
    /\ pc' = "fn_done"
    /\ UNCHANGED <<cmds, environ, status, exists, trace, calls, printed, exitCode, fn_in>>
    /\ UNCHANGED lintVars

FindNext == call_find_cpp_files

SpecFind == FindInit /\ [][FindNext]_vars

----------------------------------------------------------------------------
(* Properties *)

PhaseOrder == <<"destroy", "clean", "configure", "build", "target", "test",
                "coverage", "lint", "install">>

Rank(phase) == CHOOSE k \in 1..Len(PhaseOrder) : PhaseOrder[k] = phase

NoFailure == \A i \in 1..Len(trace) : trace[i].res # "fail"

Phases == {trace[i].phase : i \in 1..Len(trace)}

\* the request sets nothing but the given target (None: no target either)
OnlyTarget(t) ==
    /\ cmds.target = t
    /\ ~cmds.destroy /\ ~cmds.configure /\ ~cmds.build /\ ~cmds.test
    /\ ~cmds.coverage /\ ~cmds.install /\ ~cmds.tidy /\ ~cmds.release

\* the request sets nothing but destroy
OnlyDestroy ==
    /\ cmds.destroy /\ cmds.target = None
    /\ ~cmds.configure /\ ~cmds.build /\ ~cmds.test
    /\ ~cmds.coverage /\ ~cmds.install /\ ~cmds.tidy /\ ~cmds.release

\* C1: once an executed phase has reported failure, no later phase executes.
C1_ShortCircuit ==
    \A i \in 1..Len(trace) : trace[i].res = "fail" => i = Len(trace)

\* C2: the boolean of the final status line is true exactly when no executed
\* phase reported failure.
C2_FinalStatus ==
    printed # <<>> => (printed[1] <=> NoFailure)

\* C3: the exit code is 0 when the final status is true and non-zero when it
\* is false.
C3_ExitCode ==
    (pc = "done" /\ printed # <<>>) => ((exitCode[1] = 0) <=> printed[1])

\* C4: the effective flags satisfy coverage => test => build => configure,
\* install => build, tidy => build, named target => configure.
C4_Dependencies ==
    /\ cmds.coverage => test(cmds)
    /\ test(cmds) => build(cmds)
    /\ build(cmds) => configure(cmds)
    /\ cmds.install => build(cmds)
    /\ cmds.tidy => build(cmds)
    /\ cmds.target # None => configure(cmds)
    /\ \A i \in 1..Len(trace) :
          /\ trace[i].phase = "coverage" => "test" \in Phases
          /\ trace[i].phase \in {"test", "lint", "install"} => "build" \in Phases
          /\ trace[i].phase \in {"build", "target"} => "configure" \in Phases

C4_Witness ==
    /\ cmds.coverage /\ ~cmds.test /\ ~cmds.build /\ ~cmds.configure
    /\ cmds.tidy /\ cmds.install /\ cmds.target = Some("app")
    /\ pc = "done"
    /\ Phases = {"configure", "build", "target", "test", "coverage", "lint", "install"}

\* C5: executed phases follow the fixed order destroy, clean, configure,
\* build, target, test, coverage, lint, install; each at most once, and only
\* when its effective flag (as resolved from the request) is set.
C5_Effective(phase) ==
    LET doTarget == cmds.target # None
        doTest == cmds.test \/ cmds.coverage
        doBuild == cmds.build \/ doTest \/ cmds.install \/ cmds.tidy
    IN  CASE phase = "destroy" -> cmds.destroy
          [] phase = "clean" -> cmds.target = Some("clean")
          [] phase = "configure" ->
                cmds.configure \/ doBuild \/ cmds.release \/ doTarget \/ cmds.tidy
          [] phase = "build" -> doBuild
          [] phase = "target" -> doTarget /\ cmds.target # Some("clean")
          [] phase = "test" -> doTest
          [] phase = "coverage" -> cmds.coverage
          [] phase = "lint" -> cmds.tidy
          [] phase = "install" -> cmds.install

C5_FixedOrder ==
    /\ \A i, j \in 1..Len(trace) :
          i < j => Rank(trace[i].phase) < Rank(trace[j].phase)
    /\ \A i \in 1..Len(trace) : C5_Effective(trace[i].phase)

C5_Witness ==
    /\ Len(trace) = 8
    /\ trace[1].phase = "destroy" /\ trace[2].phase = "configure"
    /\ trace[8].phase = "install"
    /\ pc = "done"

\* C6: when the build phase fails, the named-target, test, coverage, lint and
\* install phases are not invoked and the final status is false.
C6_BuildFailure ==
    \A i \in 1..Len(trace) :
        (trace[i].phase = "build" /\ trace[i].res = "fail") =>
            /\ i = Len(trace)
            /\ calls[Len(calls)].target = "all"
            /\ pc \notin {"tidy_env", "tidy_mkdir", "tidy_invoke", "tidy_log",
                          "tidy_err", "tidy_ret"}
            /\ printed # <<>> => printed = <<FALSE>>

C6_Witness ==
    /\ pc = "done"
    /\ trace # <<>>
    /\ trace[Len(trace)] = [phase |-> "build", res |-> "fail"]
    /\ cmds.test /\ cmds.coverage /\ cmds.tidy /\ cmds.install
    /\ cmds.target = Some("app")
    /\ printed = <<FALSE>>

\* the clang-tidy invocations made so far
TidyCalls == SelectSeq(calls, LAMBDA c : c.tool = "clang-tidy")

NoPatterns == tidy_env # None /\ tidy_env[1].TIDY_EXCLUDE \in {None, Some(<<>>)}

\* C7 as stated: with TIDY_EXCLUDE unset or empty, find_cpp_files returns no
\* file and the lint tool gets no positional file argument.
C7_EmptyResult ==
    NoPatterns =>
        /\ cpp_files = <<>>
        /\ \A k \in 1..Len(TidyCalls) : TidyCalls[k].files = <<>>

\* C7 as amended: with TIDY_EXCLUDE unset or empty, find_cpp_files returns
\* every discovered .cpp file in discovery order, and the lint tool gets all
\* of them as positional arguments.
C7_AllFiles ==
    NoPatterns =>
        /\ cpp_files = tidy_env[1].glob
        /\ \A k \in 1..Len(TidyCalls) : TidyCalls[k].files = tidy_env[1].glob

C7_Witness ==
    /\ NoPatterns
    /\ Len(tidy_env[1].glob) = 2
    /\ Len(TidyCalls) = 1
    /\ TidyCalls[1].files = tidy_env[1].glob

\* C8: search_tidy returns exactly the lines containing "error: " or
\* "warning: ", in their order, each followed by one newline.
C8_Starts(t) == {s \in 1..Len(t) : s = 1 \/ t[s - 1] = "\n"}

C8_Min(S) == CHOOSE m \in S : \A x \in S : m <= x

C8_Line(t, s) ==
    LET nl == {i \in s..Len(t) : t[i] = "\n"}
        e == IF nl = {} THEN Len(t) ELSE C8_Min(nl) - 1
        raw == SubSeq(t, s, e)
    IN  IF nl # {} /\ raw # <<>> /\ raw[Len(raw)] = "\r"
        THEN SubSeq(raw, 1, Len(raw) - 1) ELSE raw

C8_Contains(line, sub) ==
    \E i \in 1..(Len(line) - Len(sub) + 1) : SubSeq(line, i, i + Len(sub) - 1) = sub

C8_Kept(t) ==
    {s \in C8_Starts(t) :
        \/ C8_Contains(C8_Line(t, s), <<"e", "r", "r", "o", "r", ":", " ">>)
        \/ C8_Contains(C8_Line(t, s), <<"w", "a", "r", "n", "i", "n", "g", ":", " ">>)}

RECURSIVE C8_Joined(_, _)
C8_Joined(t, S) ==
    IF S = {} THEN <<>>
    ELSE LET m == C8_Min(S)
         IN  (C8_Line(t, m) \o <<"\n">>) \o C8_Joined(t, S \ {m})

C8_SearchTidy ==
    (fn_out # None /\ fn_out[1].ok) => fn_out[1].val = C8_Joined(fn_in, C8_Kept(fn_in))

C8_Witness ==
    /\ fn_out # None /\ fn_out[1].ok
    /\ Cardinality(C8_Starts(fn_in)) = 2
    /\ Cardinality(C8_Kept(fn_in)) = 1
    /\ C8_Min(C8_Starts(fn_in)) \notin C8_Kept(fn_in)
    /\ fn_out[1].val = WarnTag \o <<"z", "\n">>

\* C9: destroy against a build directory that does not exist attempts no
\* removal and counts as success; a request of destroy alone then executes no
\* phase, invokes no tool and ends with final status true.
C9_DestroyNoDir ==
    (cmds.destroy /\ ~environ.dir_at_start) =>
        /\ "destroy" \notin Phases
        /\ pc = "clean" => status
        /\ OnlyDestroy =>
              /\ trace = <<>>
              /\ calls = <<>>
              /\ printed # <<>> => printed = <<TRUE>>

C9_Witness ==
    /\ OnlyDestroy /\ ~environ.dir_at_start
    /\ pc = "done"
    /\ printed = <<TRUE>>

\* C10: target "clean" alone against a build directory that does not exist is
\* a configure-only run: no clean invocation, no failure recorded for it, and
\* the final status is the configure result.
C10_CleanNoDir ==
    (OnlyTarget(Some("clean")) /\ ~environ.dir_at_start) =>
        /\ Phases \subseteq {"configure"}
        /\ \A k \in 1..Len(calls) : calls[k].target # "clean"
        /\ pc = "configure" => status
        /\ printed # <<>> =>
              /\ Len(trace) = 1
              /\ Len(calls) = 1
              /\ printed = <<trace[1].res = "ok">>

C10_Witness ==
    /\ OnlyTarget(Some("clean")) /\ ~environ.dir_at_start
    /\ pc = "done"
    /\ trace = <<[phase |-> "configure", res |-> "fail"]>>
    /\ printed = <<FALSE>>


\* the request sets nothing but build
OnlyBuild ==
    /\ cmds.build /\ cmds.target = None
    /\ ~cmds.destroy /\ ~cmds.configure /\ ~cmds.test
    /\ ~cmds.coverage /\ ~cmds.install /\ ~cmds.tidy /\ ~cmds.release

\* the cmake calls that are configure invocations (they carry the build type)
IsConfigureCall(c) == c.tool = "cmake" /\ c.defs # {}

\* C11: build alone on a fresh build directory runs configure, then build,
\* and nothing else; the final status is true iff both tools exit with success.
C11_BuildOnly ==
    (OnlyBuild /\ ~environ.dir_at_start) =>
        /\ Len(trace) <= 2 /\ Len(calls) <= 2
        /\ Len(trace) >= 1 => trace[1].phase = "configure"
        /\ Len(trace) >= 2 => trace[2].phase = "build" /\ trace[1].res = "ok"
        /\ Len(calls) >= 1 => IsConfigureCall(calls[1])
        /\ Len(calls) >= 2 => calls[2] = [NoCall EXCEPT !.tool = "cmake", !.target = "all"]
        /\ pc \in {"target", "test", "coverage", "tidy", "install", "println"}
              => trace # <<>> /\ (trace[1].res = "ok" => Len(trace) = 2)
        /\ printed # <<>> =>
              printed = <<Len(trace) = 2 /\ trace[1].res = "ok" /\ trace[2].res = "ok">>

C11_Witness ==
    /\ OnlyBuild /\ ~environ.dir_at_start
    /\ pc = "done"
    /\ Len(calls) = 2
    /\ printed = <<TRUE>>

\* C12: when the tool of an executed phase cannot be launched, the run aborts
\* at once: no later phase runs, no status is recorded for it and no final
\* status line is printed.
C12_LaunchFailure ==
    \A i \in 1..Len(trace) :
        trace[i].res = "abort" =>
            /\ i = Len(trace)
            /\ pc = "aborted"
            /\ printed = <<>>
            /\ exitCode = Some(PanicExit)
            /\ trace[i].phase = "lint" \/ status = (i = 1 \/ trace[i - 1].res = "ok")

C12_Witness ==
    /\ pc = "aborted"
    /\ Len(trace) = 3
    /\ trace[3] = [phase |-> "test", res |-> "abort"]
    /\ Len(calls) = 2
    /\ cmds.install

\* C13: with BUILD_DIR unset process() aborts before any phase: nothing is
\* removed, no tool is invoked, no artifact is written.
C13_NoBuildDir ==
    ~environ.BUILD_DIR =>
        /\ pc \in {"process", "aborted"}
        /\ trace = <<>> /\ calls = <<>> /\ printed = <<>>
        /\ exists = environ.dir_at_start
        /\ ~tidyDir /\ fullLog = <<>> /\ errLog = <<>>

C13_Witness ==
    /\ ~environ.BUILD_DIR
    /\ pc = "aborted"
    /\ cmds.destroy /\ cmds.tidy /\ cmds.install
    /\ environ.dir_at_start /\ exists

\* C14: a run whose lint phase does not execute never aborts for a missing
\* REPO_ROOT (an abort then has another cause: BUILD_DIR unset or a tool that
\* cannot be launched); when the lint phase executes with REPO_ROOT unset the
\* run aborts before clang-tidy is invoked and before any log is written.
C14_RepoRoot ==
    ~environ.REPO_ROOT =>
        /\ (pc = "aborted" /\ "lint" \notin Phases) =>
              \/ ~environ.BUILD_DIR
              \/ trace # <<>> /\ trace[Len(trace)].res = "abort"
        /\ "lint" \in Phases =>
              /\ pc \in {"tidy_env", "aborted"}
              /\ TidyCalls = <<>>
              /\ ~tidyDir /\ fullLog = <<>> /\ errLog = <<>>
              /\ printed = <<>>

C14_Witness ==
    /\ ~environ.REPO_ROOT
    /\ pc = "aborted"
    /\ trace # <<>>
    /\ trace[Len(trace)] = [phase |-> "lint", res |-> "fatal"]


\* C15: for a non-empty exclusion string, find_cpp_files returns exactly the
\* discovered files whose path matches at least one of the patterns, each
\* once and in discovery order.
C15_Cuts(e) == {0, Len(e) + 1} \cup {i \in 1..Len(e) : e[i] = " "}

C15_Patterns(e) ==
    {SubSeq(e, a + 1, b - 1) : <<a, b>> \in
        {ab \in C15_Cuts(e) \X C15_Cuts(e) :
            /\ ab[1] < ab[2]
            /\ ~\E c \in C15_Cuts(e) : ab[1] < c /\ c < ab[2]}}

C15_Occurs(p, path) ==
    \E i \in 1..(Len(path) - Len(p) + 1) : SubSeq(path, i, i + Len(p) - 1) = p

C15_Kept(e, glob) ==
    {n \in 1..Len(glob) : \E p \in C15_Patterns(e) : C15_Occurs(p, glob[n])}

OnlyRelease ==
    /\ cmds.release /\ cmds.target = None
    /\ ~cmds.destroy /\ ~cmds.configure /\ ~cmds.build /\ ~cmds.test
    /\ ~cmds.coverage /\ ~cmds.install /\ ~cmds.tidy

\* the phases from configure on
LaterPhases == {"configure", "build", "target", "test", "coverage", "lint", "install"}

\* C16: the effective flags are exactly test = test OR coverage, build = build
\* OR test OR install OR lint, configure = configure OR build OR release OR
\* target given OR lint; release alone or a target alone gives configure
\* without build, and no flag gives no phase.  A run that ends with status
\* true has executed exactly the phases so enabled.
C16_Resolver ==
    LET doTest == cmds.test \/ cmds.coverage
        doBuild == cmds.build \/ doTest \/ cmds.install \/ cmds.tidy
        doConfigure == cmds.configure \/ doBuild \/ cmds.release
                          \/ cmds.target # None \/ cmds.tidy
    IN  /\ test(cmds) = doTest
        /\ build(cmds) = doBuild
        /\ configure(cmds) = doConfigure
        /\ (OnlyRelease \/ \E t \in TargetNames : OnlyTarget(Some(t))) =>
              configure(cmds) /\ ~build(cmds) /\ "build" \notin Phases
        /\ OnlyTarget(None) => Phases = {}
        /\ printed = <<TRUE>> =>
              /\ ("configure" \in Phases) = doConfigure
              /\ ("build" \in Phases) = doBuild
              /\ ("test" \in Phases) = doTest

C16_Witness ==
    /\ OnlyRelease
    /\ pc = "done"
    /\ printed = <<TRUE>>
    /\ Phases = {"configure"}

\* the entries of the trace for the lint phase
LintEntries == SelectSeq(trace, LAMBDA e : e.phase = "lint")

C19_DestroyThenConfigure ==
    /\ (trace # <<>> /\ trace[1] = [phase |-> "destroy", res |-> "ok"]) =>
          /\ "clean" \notin Phases
          /\ \A k \in 1..Len(calls) : calls[k].target # "clean"
          /\ Len(trace) >= 2 => trace[2].phase = "configure"
          /\ (cmds.target # None /\ pc \notin {"clean", "configure"}) => Len(trace) >= 2
    /\ (pc = "configure" /\ trace # <<>> /\ trace[Len(trace)].phase = "clean") => exists
    /\ \A k \in 1..Len(calls) : calls[k].target = "clean" => environ.dir_at_start

C19_Witness ==
    /\ cmds.destroy /\ cmds.target = Some("clean")
    /\ pc = "done"
    /\ trace = <<[phase |-> "destroy", res |-> "ok"], [phase |-> "configure", res |-> "ok"]>>
    /\ Len(calls) = 1

\* C20: the configure invocation carries Release iff release was requested
\* (Debug otherwise), the test define iff test or coverage was requested, and
\* the coverage define iff coverage was requested.
C20_ConfigureArgs ==
    \A k \in 1..Len(calls) :
        IsConfigureCall(calls[k]) =>
            /\ ("-DCMAKE_BUILD_TYPE=Release" \in calls[k].defs) = cmds.release
            /\ ("-DCMAKE_BUILD_TYPE=Debug" \in calls[k].defs) = ~cmds.release
            /\ ("-Dtest=ON" \in calls[k].defs) = (cmds.test \/ cmds.coverage)
            /\ ("-DENABLE_COVERAGE=ON" \in calls[k].defs) = cmds.coverage
            /\ calls[k].defs \subseteq {"-DCMAKE_BUILD_TYPE=Release", "-DCMAKE_BUILD_TYPE=Debug",
                                        "-Dtest=ON", "-DENABLE_COVERAGE=ON"}

C20_Witness ==
    /\ cmds.coverage /\ ~cmds.test /\ cmds.release
    /\ Len(calls) >= 1
    /\ calls[1].defs = {"-DCMAKE_BUILD_TYPE=Release", "-Dtest=ON", "-DENABLE_COVERAGE=ON"}


\* the run ended in a panic whose cause is in the model: BUILD_DIR unset, a
\* tool that cannot be launched ("abort") or a fatal error of the lint phase
AbortCause ==
    \/ ~environ.BUILD_DIR
    \/ trace # <<>> /\ trace[Len(trace)].res \in {"abort", "fatal"}

====
